---------------------------- MODULE Spec2Model ----------------------------
(***************************************************************************)
(* A model of libraryconvert.py: the synchronisation of a destination      *)
(* tree with a source tree (convert, copy, delete), its merge-based diff   *)
(* and its pool of conversion workers.                                     *)
(*                                                                         *)
(* Strings are sequences of one-character strings, compared as Python      *)
(* compares str values (by code point, a proper prefix first).             *)
(***************************************************************************)
EXTENDS Integers, Sequences, FiniteSets, TLC

(***************************************************************************)
(* Bounds of the model.                                                    *)
(***************************************************************************)
\* the number of worker threads of the pool, at most
MaxJobs == 2
\* the number of files a tree holds at most
MaxFiles == 2

(***************************************************************************)
(* Strings.                                                                *)
(***************************************************************************)
\* the code point of a character (ord): only its order matters
Ord(c) ==
    CASE c = "," -> 44 [] c = "." -> 46 [] c = "/" -> 47 [] c = "3" -> 51
      [] c = "@" -> 64
      [] c = "a" -> 97 [] c = "b" -> 98 [] c = "c" -> 99 [] c = "d" -> 100
      [] c = "g" -> 103 [] c = "j" -> 106 [] c = "m" -> 109 [] c = "o" -> 111
      [] c = "p" -> 112 [] c = "r" -> 114 [] c = "s" -> 115 [] c = "t" -> 116
      [] c = "v" -> 118 [] c = "w" -> 119 [] c = "x" -> 120

\* s < t on Python str values
StrLess(s, t) ==
    \E i \in 1..Len(t) :
        /\ i <= Len(s) + 1
        /\ \A k \in 1..(i - 1) : s[k] = t[k]
        /\ \/ i = Len(s) + 1
           \/ Ord(s[i]) < Ord(t[i])

\* the largest index of character c in s, 0 when there is none (str.rfind)
RFind(s, c) ==
    IF \E i \in 1..Len(s) : s[i] = c
    THEN CHOOSE i \in 1..Len(s) : s[i] = c /\ \A k \in (i + 1)..Len(s) : s[k] # c
    ELSE 0

\* os.path.splitext: the extension starts at the last dot of the last
\* component, leading dots of that component not counting
splitext(p) ==
    LET sepIndex == RFind(p, "/")
        dotIndex == RFind(p, ".")
    IN  IF /\ dotIndex > sepIndex
           /\ \E k \in (sepIndex + 1)..(dotIndex - 1) : p[k] # "."
        THEN <<SubSeq(p, 1, dotIndex - 1), SubSeq(p, dotIndex, Len(p))>>
        ELSE <<p, <<>>>>

\* os.path.split: <<head, tail>> around the last separator
split(p) ==
    LET i == RFind(p, "/")
    IN  IF i = 0 THEN <<(<<>>), p>>
        ELSE <<SubSeq(p, 1, i - 1), SubSeq(p, i + 1, Len(p))>>

\* os.path.join of a directory and a relative path
join(d, rel) == IF d = <<>> THEN rel ELSE d \o <<"/">> \o rel

\* os.path.relpath of a path below directory d
relpath(p, d) == SubSeq(p, Len(d) + 2, Len(p))

\* p lies below directory d
Below(p, d) ==
    /\ Len(p) > Len(d) + 1
    /\ SubSeq(p, 1, Len(d)) = d
    /\ p[Len(d) + 1] = "/"

ensure_dot_prefix(s) == IF s[1] = "." THEN s ELSE <<".">> \o s

replace_ext(fp, e) == splitext(fp)[1] \o e

ext(fp) == splitext(fp)[2]

\* str.split(",") of a string
RECURSIVE SplitComma(_)
SplitComma(s) ==
    LET I == {i \in 1..Len(s) : s[i] = ","}
    IN  IF I = {} THEN <<s>>
        ELSE LET i == CHOOSE j \in I : \A k \in I : j <= k
             IN  <<SubSeq(s, 1, i - 1)>> \o SplitComma(SubSeq(s, i + 1, Len(s)))

\* the elements of a sequence
Range(f) == {f[i] : i \in DOMAIN f}

\* list.sort() of a list of distinct strings, given as their set
RECURSIVE SortStrings(_)
SortStrings(S) ==
    IF S = {} THEN <<>>
    ELSE LET m == CHOOSE x \in S : \A y \in S : y = x \/ StrLess(x, y)
         IN  <<m>> \o SortStrings(S \ {m})


(***************************************************************************)
(* The file system and the command line.                                   *)
(***************************************************************************)
VARIABLES
    fs,                 \* files: path -> mtime; dirs: the directories;
                        \* unreadable: the directories scandir fails on
    args,               \* the parsed command line (argparse's namespace)
    pc,                 \* where main is
    exit_status,        \* the status of exit(), -1 while none was called
    files_to_convert, files_to_delete, files_to_copy, files_to_delete2,
    loop_i,             \* the position of the for loop main is in
    q,                  \* queue.Queue: the items put and not yet got
    unfinished_tasks,   \* queue.Queue.unfinished_tasks
    threads,            \* worker -> [pc, rel_fp, dest_fp]
    stdout_lock,        \* the thread holding the lock, <<>> when free
    hist                \* history: what the run has done so far

\* the positional arguments SOURCE and DEST
SOURCE == <<"s">>
DEST == <<"o">>

WAV == <<".", "w", "a", "v">>
OGG == <<".", "o", "g", "g">>
MP3 == <<".", "m", "p", "3">>
JPG == <<".", "j", "p", "g">>

\* the relative paths a source tree is drawn from
SrcUniverse ==
    { <<"a">> \o OGG, <<"a", ".", "r">> \o WAV, <<"a">> \o WAV,
      <<"d", "/", "c">> \o JPG }

\* the relative paths a destination tree is drawn from
DestUniverse ==
    { <<"a">> \o MP3, <<"a", ".", "r">> \o MP3, <<"d", "/", "c">> \o JPG }

\* the directories above a path, up to and without the empty path
Ancestors(p) == {SubSeq(p, 1, i - 1) : i \in {k \in 1..Len(p) : p[k] = "/"}}

\* a tree of files below root, every file with its mtime
Tree(root, rels, mtime) ==
    [p \in {join(root, r) : r \in rels} |-> mtime[relpath(p, root)]]

\* os.walk(dir) with its default onerror=None: the files of every directory
\* it can scan, from dir down; a directory that is missing or unreadable is
\* skipped with all it holds, and so is dir itself
walk(f, dir) ==
    {p \in DOMAIN f.files :
        /\ Below(p, dir)
        /\ \A a \in Ancestors(p) :
              (a = dir \/ Below(a, dir)) => (a \in f.dirs /\ a \notin f.unreadable)}

sorted_filtered_paths(f, dir, filter_exts) ==
    SortStrings({relpath(p, dir) :
                    p \in {x \in walk(f, dir) : ext(split(x)[2]) \in Range(filter_exts)}})

\* the while loop of operations_to_sync, src_i and dest_i counted from 1
RECURSIVE merge_loop(_, _, _, _, _, _, _)
merge_loop(c, src_fps, dest_fps, src_i, dest_i, create, delete) ==
    IF src_i <= Len(src_fps) /\ dest_i <= Len(dest_fps)
    THEN LET src_fp == src_fps[src_i]
             src_fp_srt == IF c.dest_ext # <<>> THEN replace_ext(src_fp, c.dest_ext)
                           ELSE src_fp
             dest_fp == dest_fps[dest_i]
         IN  IF src_fp_srt = dest_fp
             THEN merge_loop(c, src_fps, dest_fps, src_i + 1, dest_i + 1,
                     IF /\ ~c.ignore_mtime
                        /\ c.f.files[join(c.src, src_fp)] > c.f.files[join(c.dest, dest_fp)]
                     THEN Append(create, src_fp) ELSE create,
                     delete)
             ELSE IF StrLess(dest_fp, src_fp_srt)
             THEN merge_loop(c, src_fps, dest_fps, src_i, dest_i + 1,
                     create, Append(delete, dest_fp))
             ELSE merge_loop(c, src_fps, dest_fps, src_i + 1, dest_i,
                     Append(create, src_fp), delete)
    ELSE <<create \o SubSeq(src_fps, src_i, Len(src_fps)),
           delete \o SubSeq(dest_fps, dest_i, Len(dest_fps))>>

\* <<create, delete>>; dest_ext is <<>> for None
operations_to_sync(f, ignore_mtime, src, dest, exts, dest_ext) ==
    IF exts = <<>> THEN <<(<<>>), (<<>>)>>
    ELSE merge_loop(
            [f |-> f, ignore_mtime |-> ignore_mtime, src |-> src, dest |-> dest,
             dest_ext |-> dest_ext],
            sorted_filtered_paths(f, src, exts),
            sorted_filtered_paths(f, dest, IF dest_ext # <<>> THEN <<dest_ext>> ELSE exts),
            1, 1, <<>>, <<>>)

vars == <<fs, args, pc, exit_status,
          files_to_convert, files_to_delete, files_to_copy, files_to_delete2,
          loop_i, q, unfinished_tasks, threads, stdout_lock, hist>>

plan == <<files_to_convert, files_to_delete, files_to_copy, files_to_delete2>>
pool == <<q, unfinished_tasks, threads, stdout_lock>>

(***************************************************************************)
(* The initial states: a command line not yet looked at and a file system. *)
(* A field of args holds argparse's default (the empty string for a        *)
(* required one) until the step of main that first uses it draws its       *)
(* value; it never changes afterwards, but for jobs and the extensions,    *)
(* which main rewrites.                                                    *)
(***************************************************************************)
Args0 ==
    [CONVERT_CMD |-> <<>>, jobs |-> 0, to_ext |-> <<>>, from_exts |-> <<>>,
     copy_exts |-> <<>>, dry_run |-> FALSE, noconfirm |-> FALSE,
     verbose |-> FALSE, ignore_mtime |-> FALSE]

History0 ==
    [fs0 |-> fs,            \* the file system main started with
     listed |-> FALSE,      \* a listing was made
     reported |-> FALSE,    \* the plan was printed
     removed |-> {},        \* the paths os.remove removed
     copied |-> 0,          \* the copies shutil.copy made
     spawned |-> 0,         \* the converter commands started
     failed |-> 0,          \* the converter commands that exited non-zero
     put |-> <<>>,          \* the items q.put was given, in order
     got |-> <<>>,          \* the items q.get returned, in order
     done |-> {},           \* the items q.task_done was called for
     task_done |-> 0,       \* the calls of q.task_done
     joined |-> FALSE,      \* q.join returned
     edit |-> <<>>,         \* what was done to the source tree since fs0:
                            \* <<"add", path>> or <<"remove", path>>
     answer |-> "unasked",  \* what the operator typed last at the prompt
     jobs |-> 0,            \* the value of -j as given (runs of JobsSpec)
     cpu_count |-> 0]       \* what os.cpu_count() returned (runs of JobsSpec)

\* the file system holding the source files srcRels (mtime 2) and the
\* destination files destRels (mtimes destTime), the roots existing as said
FileSystem(srcRels, destRels, destTime, srcRoot, destRoot, unreadable) ==
    LET files == Tree(SOURCE, srcRels, [r \in srcRels |-> 2])
                 @@ Tree(DEST, destRels, destTime)
    IN  [files |-> files,
         dirs |-> (IF srcRoot THEN {SOURCE} ELSE {}) \cup (IF destRoot THEN {DEST} ELSE {})
                  \cup UNION {Ancestors(p) : p \in DOMAIN files},
         unreadable |-> unreadable]

InitRun ==
    /\ args = Args0
    /\ pc = "validate"
    /\ exit_status = -1
    /\ files_to_convert = <<>> /\ files_to_delete = <<>>
    /\ files_to_copy = <<>> /\ files_to_delete2 = <<>>
    /\ loop_i = 0
    /\ q = <<>> /\ unfinished_tasks = 0
    /\ threads = <<>>
    /\ stdout_lock = <<>>
    /\ hist = History0

\* the subdirectories of the two trees that files of the universes lie in
SubDirs(srcRels, destRels) ==
    (UNION {Ancestors(join(SOURCE, r)) : r \in srcRels}
     \cup UNION {Ancestors(join(DEST, r)) : r \in destRels}) \ {SOURCE, DEST}

Init ==
    /\ \E srcRels \in SUBSET SrcUniverse, destRels \in SUBSET DestUniverse,
          t \in {1, 3}, srcRoot \in BOOLEAN, destRoot \in BOOLEAN :
          /\ Cardinality(srcRels) <= MaxFiles
          /\ Cardinality(destRels) <= MaxFiles
          /\ ~srcRoot => srcRels = {}
          /\ ~destRoot => destRels = {}
          /\ destRels = {} => t = 1
          /\ \E unreadable \in SUBSET SubDirs(srcRels, destRels) :
                /\ Cardinality(unreadable) <= 1
                /\ fs = FileSystem(srcRels, destRels, [r \in destRels |-> t],
                                   srcRoot, destRoot, unreadable)
    /\ InitRun

(***************************************************************************)
(* The inputs of a run.                                                    *)
(***************************************************************************)
AT_SOURCE == <<"@", "s", "o", "u", "r", "c", "e">>
AT_DEST == <<"@", "d", "e", "s", "t">>

\* the command templates CONVERT_CMD is drawn from
Templates ==
    { <<(<<"c">>), AT_SOURCE, AT_DEST>>, <<(<<"c">>), AT_SOURCE>>,
      <<(<<"c">>), AT_DEST>>, <<(<<"c">>)>> }

\* the values of --to, --from and --copy (<<>>: no --copy)
ToInputs == { Tail(MP3), MP3 }
FromInputs == { Tail(WAV), WAV \o <<",">> \o Tail(OGG) }
CopyInputs == { <<>>, Tail(JPG) }

\* the values of -j and of os.cpu_count() of a whole run: one worker
JobsInputs == {-1, 0, 1}
CpuCounts == {1}

\* what the operator types at the prompt
Answers == {"y", "Y", "n", "", "x"}

\* str.lower of an answer
lower(inp) == IF inp = "Y" THEN "y" ELSE inp

(***************************************************************************)
(* The file operations.                                                    *)
(***************************************************************************)
\* dir_empty: next(os.scandir(dirpath)) finds no entry
dir_empty(f, dirpath) ==
    /\ \A p \in DOMAIN f.files : split(p)[1] # dirpath
    /\ \A d \in f.dirs : split(d)[1] # dirpath

\* os.remove
remove(f, fp) ==
    [f EXCEPT !.files = [p \in DOMAIN f.files \ {fp} |-> f.files[p]]]

\* os.removedirs: rmdir the leaf, then each parent in turn while the rmdir
\* succeeds, that is while the parent is empty
RECURSIVE prune(_, _)
prune(f, head) ==
    IF head # <<>> /\ head \in f.dirs /\ dir_empty(f, head)
    THEN prune([f EXCEPT !.dirs = f.dirs \ {head}], split(head)[1])
    ELSE f

\* os.rmdir in place of os.removedirs: the leaf only
rmdir(f, name) == [f EXCEPT !.dirs = f.dirs \ {name}]

removedirs(f, name) ==
    prune([f EXCEPT !.dirs = f.dirs \ {name}], split(name)[1])

\* os.makedirs(name, exist_ok=True)
makedirs(f, name) ==
    IF name = <<>> THEN f
    ELSE [f EXCEPT !.dirs = f.dirs \cup {name} \cup Ancestors(name)]

\* a write of file fp (shutil.copy, the converter): its mtime becomes the
\* time of the run, 3, which no mtime of the initial trees exceeds
write(f, fp) ==
    [f EXCEPT !.files = [p \in DOMAIN f.files \cup {fp} |-> IF p = fp THEN 3 ELSE f.files[p]]]

(***************************************************************************)
(* main, up to the plan.                                                   *)
(***************************************************************************)
\* the for loops with the copies first
loops_swapped == <<"copy", "delete">>

\* the for loops of main in their order, lines 164 and 173
loops == <<"delete", "copy">>

\* where main goes from its k-th loop on: into the first loop whose list is
\* not empty, or past them all
RECURSIVE enter(_)
enter(k) ==
    IF k > Len(loops) THEN "start"
    ELSE IF (IF loops[k] = "delete" THEN files_to_delete ELSE files_to_copy) # <<>>
    THEN loops[k]
    ELSE enter(k + 1)

\* where main goes when the loop it is in is over
leave(loop) == enter(1 + CHOOSE k \in DOMAIN loops : loops[k] = loop)

\* lines 131-133, with "and" for "or": one placeholder is enough
valid_cmd_either(cmd) == AT_SOURCE \in Range(cmd) \/ AT_DEST \in Range(cmd)

\* lines 131-133
valid_cmd(cmd) == AT_SOURCE \in Range(cmd) /\ AT_DEST \in Range(cmd)

m_validate ==
    /\ pc = "validate"
    /\ \E cmd \in Templates :
          /\ args' = [args EXCEPT !.CONVERT_CMD = cmd]
          /\ IF ~valid_cmd(cmd)
             THEN pc' = "exit" /\ exit_status' = 1
             ELSE pc' = "jobs" /\ UNCHANGED exit_status
    /\ UNCHANGED <<fs, plan, loop_i, pool, hist>>

\* lines 135-138 without the second test, lines 137-138
resolve_jobs_unclamped(jobs, cpu_count) ==
    IF jobs <= 0 THEN jobs + cpu_count ELSE jobs

\* lines 135-138
resolve_jobs(jobs, cpu_count) ==
    LET j == IF jobs <= 0 THEN jobs + cpu_count ELSE jobs
    IN  IF j <= 0 THEN 1 ELSE j

m_jobs ==
    /\ pc = "jobs"
    /\ \E jobs \in JobsInputs, cpu_count \in CpuCounts :
          args' = [args EXCEPT !.jobs = resolve_jobs(jobs, cpu_count)]
    /\ pc' = "exts"
    /\ UNCHANGED <<fs, exit_status, plan, loop_i, pool, hist>>

\* lines 140-143
dot_prefixed(s) == [k \in DOMAIN SplitComma(s) |-> ensure_dot_prefix(SplitComma(s)[k])]

m_exts ==
    /\ pc = "exts"
    /\ \E to \in ToInputs, from \in FromInputs, copy \in CopyInputs :
          args' = [args EXCEPT !.to_ext = ensure_dot_prefix(to),
                               !.from_exts = dot_prefixed(from),
                               !.copy_exts = IF copy # <<>> THEN dot_prefixed(copy) ELSE <<>>]
    /\ pc' = "plan_convert"
    /\ UNCHANGED <<fs, exit_status, plan, loop_i, pool, hist>>

\* line 145
m_plan_convert ==
    /\ pc = "plan_convert"
    /\ \E ignore_mtime \in BOOLEAN :
          /\ args' = [args EXCEPT !.ignore_mtime = ignore_mtime]
          /\ LET r == operations_to_sync(fs, ignore_mtime, SOURCE, DEST,
                                         args.from_exts, args.to_ext)
             IN  files_to_convert' = r[1] /\ files_to_delete' = r[2]
    /\ hist' = [hist EXCEPT !.listed = TRUE]
    /\ pc' = "plan_copy"
    /\ UNCHANGED <<fs, exit_status, files_to_copy, files_to_delete2, loop_i, pool>>

\* lines 146-148
m_plan_copy ==
    /\ pc = "plan_copy"
    /\ LET r == operations_to_sync(fs, args.ignore_mtime, SOURCE, DEST,
                                   args.copy_exts, <<>>)
       IN  /\ files_to_copy' = r[1]
           /\ files_to_delete2' = r[2]
           /\ files_to_delete' = files_to_delete \o r[2]
    /\ pc' = "report"
    /\ UNCHANGED <<fs, args, exit_status, files_to_convert, loop_i, pool, hist>>

\* lines 150-155
m_report ==
    /\ pc = "report"
    /\ hist' = [hist EXCEPT !.reported = TRUE]
    /\ pc' = "mode"
    /\ UNCHANGED <<fs, args, exit_status, plan, loop_i, pool>>

\* lines 157-162, up to the call of user_confirm
m_mode ==
    /\ pc = "mode"
    /\ \E dry_run \in BOOLEAN :
          IF dry_run
          THEN /\ args' = [args EXCEPT !.dry_run = TRUE]
               /\ pc' = enter(1)
          ELSE \E noconfirm \in BOOLEAN :
                  /\ args' = [args EXCEPT !.noconfirm = noconfirm]
                  /\ pc' = IF noconfirm THEN enter(1) ELSE "confirm"
    /\ loop_i' = 1
    /\ UNCHANGED <<fs, exit_status, plan, pool, hist>>

\* user_confirm with "y" for the default of line 31
m_confirm_default_yes ==
    /\ pc = "confirm"
    /\ \E typed \in Answers :
          LET inp == IF lower(typed) = "" THEN "y" ELSE lower(typed)
          IN  /\ pc' = IF ~(inp = "y" \/ inp = "n") THEN "confirm"
                       ELSE IF inp = "y" THEN enter(1) ELSE "done"
              /\ hist' = [hist EXCEPT !.answer = typed]
    /\ UNCHANGED <<fs, args, exit_status, plan, loop_i, pool>>

\* user_confirm, one turn of its loop, and line 160-161
m_confirm ==
    /\ pc = "confirm"
    /\ \E typed \in Answers :
          LET inp == IF lower(typed) = "" THEN "n" ELSE lower(typed)
          IN  /\ pc' = IF ~(inp = "y" \/ inp = "n") THEN "confirm"
                       ELSE IF inp = "y" THEN enter(1) ELSE "done"
              /\ hist' = [hist EXCEPT !.answer = typed]
    /\ UNCHANGED <<fs, args, exit_status, plan, loop_i, pool>>

(***************************************************************************)
(* main: the deletions and the copies.                                     *)
(***************************************************************************)
\* an exception nothing catches ends the process with status 1
uncaught == pc' = "error" /\ exit_status' = 1

\* lines 164-171, one turn of the loop
m_delete ==
    /\ pc = "delete"
    /\ LET fp == join(DEST, files_to_delete[loop_i])
           dir == split(fp)[1]
           continue == IF loop_i < Len(files_to_delete)
                       THEN loop_i' = loop_i + 1 /\ pc' = pc
                       ELSE loop_i' = 1 /\ pc' = leave("delete")
       IN  IF args.dry_run
           THEN /\ continue
                /\ UNCHANGED <<fs, exit_status, hist>>
           ELSE IF fp \notin DOMAIN fs.files
           THEN \* os.remove raises FileNotFoundError
                /\ uncaught
                /\ UNCHANGED <<fs, loop_i, hist>>
           ELSE \E removed \in BOOLEAN :
                  IF ~removed
                  THEN \* os.remove raises OSError
                       /\ uncaught
                       /\ UNCHANGED <<fs, loop_i, hist>>
                  ELSE LET f1 == remove(fs, fp)
                       IN  /\ hist' = [hist EXCEPT !.removed = @ \cup {fp}]
                           /\ IF dir \in f1.unreadable \/ dir \notin f1.dirs
                              THEN \* os.scandir raises OSError
                                   /\ fs' = f1
                                   /\ uncaught
                                   /\ UNCHANGED loop_i
                              ELSE /\ fs' = IF dir_empty(f1, dir) THEN removedirs(f1, dir)
                                            ELSE f1
                                   /\ continue
                                   /\ UNCHANGED exit_status
    /\ UNCHANGED <<args, plan, pool>>

\* lines 173-179, one turn of the loop
m_copy ==
    /\ pc = "copy"
    /\ LET dest_fp == join(DEST, files_to_copy[loop_i])
           f1 == makedirs(fs, split(dest_fp)[1])
           continue == IF loop_i < Len(files_to_copy)
                       THEN loop_i' = loop_i + 1 /\ pc' = pc
                       ELSE loop_i' = 1 /\ pc' = leave("copy")
       IN  IF args.dry_run
           THEN /\ fs' = f1
                /\ continue
                /\ UNCHANGED <<exit_status, hist>>
           ELSE \E copied \in BOOLEAN :
                  IF ~copied
                  THEN \* shutil.copy raises OSError
                       /\ fs' = f1
                       /\ uncaught
                       /\ UNCHANGED <<loop_i, hist>>
                  ELSE /\ fs' = write(f1, dest_fp)
                       /\ hist' = [hist EXCEPT !.copied = @ + 1]
                       /\ continue
                       /\ UNCHANGED exit_status
    /\ UNCHANGED <<args, plan, pool>>

(***************************************************************************)
(* main: the pool.                                                         *)
(***************************************************************************)
FREE == <<>>
MAIN == <<"main">>
WORKER(w) == <<"worker", w>>

\* lines 181-191: every thread starts and blocks in q.get
m_start ==
    /\ pc = "start"
    /\ \E verbose \in (IF args.dry_run THEN {FALSE} ELSE BOOLEAN) :
          args' = [args EXCEPT !.verbose = verbose]
    /\ threads' = [w \in 1..args.jobs |-> [pc |-> "get", rel_fp |-> <<>>, dest_fp |-> <<>>]]
    /\ q' = <<>>
    /\ unfinished_tasks' = 0
    /\ stdout_lock' = FREE
    /\ loop_i' = 1
    /\ pc' = IF files_to_convert # <<>> THEN "put" ELSE "join"
    /\ UNCHANGED <<fs, exit_status, plan, hist>>

\* lines 194-195, one turn of the loop
m_put ==
    /\ pc = "put"
    /\ q' = Append(q, files_to_convert[loop_i])
    /\ unfinished_tasks' = unfinished_tasks + 1
    /\ hist' = [hist EXCEPT !.put = Append(@, files_to_convert[loop_i])]
    /\ IF loop_i < Len(files_to_convert)
       THEN loop_i' = loop_i + 1 /\ pc' = pc
       ELSE loop_i' = 1 /\ pc' = "join"
    /\ UNCHANGED <<fs, args, exit_status, plan, threads, stdout_lock>>

\* line 197: q.join returns once every item put was marked done
m_join ==
    /\ pc = "join"
    /\ unfinished_tasks = 0
    /\ hist' = [hist EXCEPT !.joined = TRUE]
    /\ pc' = "done"
    /\ UNCHANGED <<fs, args, exit_status, plan, loop_i, pool>>

\* a KeyboardInterrupt with a try block that ends before q.join: the
\* interrupt of the wait is caught by nothing
m_interrupt_join_escapes ==
    /\ pc \in {"put", "join"}
    /\ IF pc = "join" THEN pc' = "error" /\ exit_status' = 1
       ELSE pc' = "except" /\ UNCHANGED exit_status
    /\ UNCHANGED <<fs, args, plan, loop_i, pool, hist>>

\* a KeyboardInterrupt inside the try block, line 198
m_interrupt ==
    /\ pc \in {"put", "join"}
    /\ pc' = "except"
    /\ UNCHANGED <<fs, args, exit_status, plan, loop_i, pool, hist>>

\* line 199: the lock is taken
m_except_lock ==
    /\ pc = "except"
    /\ stdout_lock = FREE
    /\ stdout_lock' = MAIN
    /\ pc' = "except_print"
    /\ UNCHANGED <<fs, args, exit_status, plan, loop_i, q, unfinished_tasks, threads, hist>>

\* lines 199-200: printed, the lock is released and main returns
m_except_unlock ==
    /\ pc = "except_print"
    /\ stdout_lock' = FREE
    /\ pc' = "done"
    /\ UNCHANGED <<fs, args, exit_status, plan, loop_i, q, unfinished_tasks, threads, hist>>

(***************************************************************************)
(* worker.  The threads are daemons: they run while main does.             *)
(***************************************************************************)
alive == pc \in {"put", "join", "except", "except_print"}

at(w, where) == alive /\ w \in DOMAIN threads /\ threads[w].pc = where

goto(w, where) == threads' = [threads EXCEPT ![w].pc = where]

\* line 44
dest_fp_of(rel_fp) == join(DEST, replace_ext(rel_fp, args.to_ext))

\* lines 46-51
convert_cmd(cmd, src_fp, dest_fp) ==
    [k \in DOMAIN cmd |-> IF cmd[k] = AT_SOURCE THEN src_fp
                          ELSE IF cmd[k] = AT_DEST THEN dest_fp ELSE cmd[k]]

\* line 42, with a get that leaves the item in the queue
w_get_peek(w) ==
    /\ at(w, "get")
    /\ q # <<>>
    /\ threads' = [threads EXCEPT ![w] = [pc |-> "echo", rel_fp |-> Head(q), dest_fp |-> dest_fp_of(Head(q))]]
    /\ hist' = [hist EXCEPT !.got = Append(@, Head(q))]
    /\ UNCHANGED <<fs, args, pc, exit_status, plan, loop_i, q, unfinished_tasks, stdout_lock>>

\* line 42
w_get(w) ==
    /\ at(w, "get")
    /\ q # <<>>
    /\ threads' = [threads EXCEPT ![w] = [pc |-> "echo", rel_fp |-> Head(q), dest_fp |-> dest_fp_of(Head(q))]]
    /\ q' = Tail(q)
    /\ hist' = [hist EXCEPT !.got = Append(@, Head(q))]
    /\ UNCHANGED <<fs, args, pc, exit_status, plan, loop_i, unfinished_tasks, stdout_lock>>

\* lines 54, 57 and 68, with a lock that does not wait for its holder
w_lock_nowait(w) ==
    /\ at(w, "echo") \/ at(w, "output")
    /\ stdout_lock' = WORKER(w)
    /\ goto(w, IF threads[w].pc = "echo" THEN "echo_print" ELSE "output_print")
    /\ UNCHANGED <<fs, args, pc, exit_status, plan, loop_i, q, unfinished_tasks, hist>>

\* lines 54, 57 and 68: the lock is taken
w_lock(w) ==
    /\ at(w, "echo") \/ at(w, "output")
    /\ stdout_lock = FREE
    /\ stdout_lock' = WORKER(w)
    /\ goto(w, IF threads[w].pc = "echo" THEN "echo_print" ELSE "output_print")
    /\ UNCHANGED <<fs, args, pc, exit_status, plan, loop_i, q, unfinished_tasks, hist>>

\* lines 55, 58 and 69: printed, the lock is released
w_unlock(w) ==
    /\ at(w, "echo_print") \/ at(w, "output_print")
    /\ stdout_lock' = FREE
    /\ goto(w, IF threads[w].pc = "echo_print" /\ ~args.dry_run THEN "makedirs"
               ELSE "task_done")
    /\ UNCHANGED <<fs, args, pc, exit_status, plan, loop_i, q, unfinished_tasks, hist>>

\* lines 59-60: the directories are made and the command is started; an
\* OSError of either ends the thread
w_run(w) ==
    /\ at(w, "makedirs")
    /\ \E outcome \in {"started", "makedirs raises", "run raises"} :
          /\ fs' = IF outcome = "makedirs raises" THEN fs
                   ELSE makedirs(fs, split(threads[w].dest_fp)[1])
          /\ goto(w, IF outcome = "started" THEN "run" ELSE "dead")
          /\ hist' = [hist EXCEPT !.spawned = IF outcome = "started" THEN @ + 1 ELSE @]
    /\ UNCHANGED <<args, pc, exit_status, plan, loop_i, q, unfinished_tasks, stdout_lock>>

\* lines 60-67: the command exits; with status 0 it has written its file
w_exit(w) ==
    /\ at(w, "run")
    /\ \E returncode \in {0, 1} :
          /\ fs' = IF returncode = 0 THEN write(fs, threads[w].dest_fp) ELSE fs
          /\ goto(w, IF returncode # 0 \/ args.verbose THEN "output" ELSE "task_done")
          /\ hist' = [hist EXCEPT !.failed = IF returncode # 0 THEN @ + 1 ELSE @]
    /\ UNCHANGED <<args, pc, exit_status, plan, loop_i, q, unfinished_tasks, stdout_lock>>

\* line 71
w_task_done(w) ==
    /\ at(w, "task_done")
    /\ unfinished_tasks' = unfinished_tasks - 1
    /\ hist' = [hist EXCEPT !.done = @ \cup {threads[w].rel_fp}, !.task_done = @ + 1]
    /\ goto(w, "get")
    /\ UNCHANGED <<fs, args, pc, exit_status, plan, loop_i, q, stdout_lock>>

worker(w) ==
    \/ w_get(w) \/ w_lock(w) \/ w_unlock(w) \/ w_run(w) \/ w_exit(w) \/ w_task_done(w)

main ==
    \/ m_validate \/ m_jobs \/ m_exts \/ m_plan_convert \/ m_plan_copy \/ m_report
    \/ m_mode \/ m_confirm \/ m_delete \/ m_copy
    \/ m_start \/ m_put \/ m_join

(***************************************************************************)
(* Spec: the runs of main nobody interrupts, with one worker.              *)
(***************************************************************************)
Next == main \/ \E w \in 1..MaxJobs : worker(w)

Spec == Init /\ [][Next]_vars

(***************************************************************************)
(* DiffSpec: main up to its report, over wider trees whose destination     *)
(* files each have an mtime of their own.                                  *)
(***************************************************************************)
DiffSrcUniverse ==
    SrcUniverse \cup { <<"b">> \o WAV, <<"d", "/", "b">> \o WAV }

DiffDestUniverse ==
    DestUniverse \cup { <<"b">> \o MP3, <<"d", "/", "b">> \o MP3 }

DiffInit ==
    /\ \E srcRels \in SUBSET DiffSrcUniverse, destRels \in SUBSET DiffDestUniverse :
          /\ Cardinality(srcRels) <= MaxFiles
          /\ Cardinality(destRels) <= MaxFiles
          /\ \E destTime \in [destRels -> {1, 2, 3}] :
                fs = FileSystem(srcRels, destRels, destTime, TRUE, TRUE, {})
    /\ InitRun

DiffNext ==
    m_validate \/ m_jobs \/ m_exts \/ m_plan_convert \/ m_plan_copy \/ m_report

DiffSpec == DiffInit /\ [][DiffNext]_vars

(***************************************************************************)
(* EditSpec: the source tree is edited once, a file added or a file        *)
(* removed, and main then runs up to its report.  hist.fs0 stays the tree  *)
(* before the edit, so that the plan of the tree as it was can be compared *)
(* with the plan main computes.                                            *)
(***************************************************************************)
\* the relative paths of the files below SOURCE
SourceFiles(f) == {relpath(p, SOURCE) : p \in {x \in DOMAIN f.files : Below(x, SOURCE)}}

EditInit ==
    /\ \E srcRels \in SUBSET DiffSrcUniverse, destRels \in SUBSET DiffDestUniverse :
          /\ Cardinality(srcRels) <= MaxFiles
          /\ Cardinality(destRels) <= MaxFiles
          /\ \E destTime \in [destRels -> {1, 3}] :
                fs = FileSystem(srcRels, destRels, destTime, TRUE, TRUE, {})
    /\ args = Args0
    /\ pc = "edit"
    /\ exit_status = -1
    /\ files_to_convert = <<>> /\ files_to_delete = <<>>
    /\ files_to_copy = <<>> /\ files_to_delete2 = <<>>
    /\ loop_i = 0
    /\ q = <<>> /\ unfinished_tasks = 0
    /\ threads = <<>>
    /\ stdout_lock = <<>>
    /\ hist = History0

\* a file is added to the source tree, in a directory made for it if need be
e_add ==
    /\ pc = "edit"
    /\ \E rel \in DiffSrcUniverse \ SourceFiles(fs) :
          /\ fs' = write(makedirs(fs, split(join(SOURCE, rel))[1]), join(SOURCE, rel))
          /\ hist' = [hist EXCEPT !.edit = <<"add", rel>>]
    /\ pc' = "validate"
    /\ UNCHANGED <<args, exit_status, plan, loop_i, pool>>

\* a file of the source tree is removed
e_remove ==
    /\ pc = "edit"
    /\ \E rel \in SourceFiles(fs) :
          /\ fs' = remove(fs, join(SOURCE, rel))
          /\ hist' = [hist EXCEPT !.edit = <<"remove", rel>>]
    /\ pc' = "validate"
    /\ UNCHANGED <<args, exit_status, plan, loop_i, pool>>

EditNext == e_add \/ e_remove \/ DiffNext

EditSpec == EditInit /\ [][EditNext]_vars

(***************************************************************************)
(* JobsSpec: whole runs over a source tree of at most one file and an      *)
(* empty destination, with -j and os.cpu_count() drawn from wider ranges;  *)
(* the history keeps what they were.                                       *)
(***************************************************************************)
\* os.cpu_count() is at most this
MaxCpus == 3

\* lines 135-138, with the wider ranges
m_jobs_any ==
    /\ pc = "jobs"
    /\ \E jobs \in (0 - MaxCpus - 1)..(MaxCpus + 1), cpu_count \in 1..MaxCpus :
          /\ args' = [args EXCEPT !.jobs = resolve_jobs(jobs, cpu_count)]
          /\ hist' = [hist EXCEPT !.jobs = jobs, !.cpu_count = cpu_count]
    /\ pc' = "exts"
    /\ UNCHANGED <<fs, exit_status, plan, loop_i, pool>>

JobsInit ==
    /\ \E srcRels \in SUBSET {<<"a">> \o WAV} :
          fs = FileSystem(srcRels, {}, <<>>, TRUE, TRUE, {})
    /\ InitRun

JobsNext ==
    \/ m_validate \/ m_jobs_any \/ m_exts \/ m_plan_convert \/ m_plan_copy \/ m_report
    \/ m_mode \/ m_confirm \/ m_start \/ m_put \/ m_join
    \/ \E w \in 1..(MaxCpus + 1) : worker(w)

JobsSpec == JobsInit /\ [][JobsNext]_vars

(***************************************************************************)
(* PoolSpec: main from line 181 on, with up to MaxJobs workers and the     *)
(* interrupts of the operator.  It starts where main is after its copies   *)
(* when the destination tree was empty and nothing is copied: the source   *)
(* files are all to convert.                                               *)
(***************************************************************************)
PoolInit ==
    /\ \E srcRels \in SUBSET SrcUniverse :
          /\ Cardinality(srcRels) <= MaxFiles
          /\ fs = FileSystem(srcRels, {}, <<>>, TRUE, TRUE, {})
    /\ \E cmd \in {c \in Templates : valid_cmd(c)}, jobs \in 1..MaxJobs,
          from \in FromInputs, dry_run \in BOOLEAN :
          args = [Args0 EXCEPT !.CONVERT_CMD = cmd, !.jobs = jobs,
                               !.to_ext = MP3, !.from_exts = dot_prefixed(from),
                               !.dry_run = dry_run, !.noconfirm = ~dry_run]
    /\ files_to_convert =
          operations_to_sync(fs, args.ignore_mtime, SOURCE, DEST,
                             args.from_exts, args.to_ext)[1]
    /\ files_to_delete = <<>> /\ files_to_copy = <<>> /\ files_to_delete2 = <<>>
    /\ pc = "start"
    /\ exit_status = -1
    /\ loop_i = 1
    /\ q = <<>> /\ unfinished_tasks = 0
    /\ threads = <<>>
    /\ stdout_lock = FREE
    /\ hist = [History0 EXCEPT !.listed = TRUE, !.reported = TRUE]

PoolNext ==
    \/ m_start \/ m_put \/ m_join
    \/ m_interrupt \/ m_except_lock \/ m_except_unlock
    \/ \E w \in 1..MaxJobs : worker(w)

PoolSpec == PoolInit /\ [][PoolNext]_vars

\* FairPoolSpec: PoolSpec under a fair scheduler.  A thread that can take a
\* step for good takes one, and a started command exits.  (The lock is taken
\* a bounded number of times, so a thread that waits for it finds it free for
\* good in the end: weak fairness is enough.)  Nothing makes the operator
\* interrupt.
PoolFairness ==
    /\ WF_vars(m_start \/ m_put \/ m_join \/ m_except_lock \/ m_except_unlock)
    /\ \A w \in 1..MaxJobs : WF_vars(worker(w))

FairPoolSpec == PoolSpec /\ PoolFairness

(***************************************************************************)
(* The claims.                                                             *)
(***************************************************************************)
\* the number of places of sequence seq that hold x
Count(seq, x) == Cardinality({k \in DOMAIN seq : seq[k] = x})

\* the path a source path corresponds to at the destination: its extension
\* replaced by dest_ext in a conversion pass, itself in a copy pass
Remapped(rel, dest_ext) ==
    IF dest_ext # <<>> THEN splitext(rel)[1] \o dest_ext ELSE rel

\* the relative paths of the files of tree f below root whose extension is
\* one of exts, whether a listing reaches them or not
Tracked(f, root, exts) ==
    {relpath(p, root) :
        p \in {x \in DOMAIN f.files : Below(x, root) /\ splitext(x)[2] \in Range(exts)}}

\* create and delete partition the listings S and D: a source path is either
\* created, once, or unchanged (its remapped path is listed at the
\* destination and is not stale); a destination path is either deleted, once,
\* or the remapped form of a source path; nothing deleted is the remapped
\* form of something created
Partitions(S, D, dest_ext, create, delete) ==
    LET stale(x) == /\ ~args.ignore_mtime
                    /\ fs.files[join(SOURCE, x)]
                          > fs.files[join(DEST, Remapped(x, dest_ext))]
        unchanged == {x \in S : Remapped(x, dest_ext) \in D /\ ~stale(x)}
    IN  /\ Range(create) \subseteq S
        /\ Range(delete) \subseteq D
        /\ \A x \in S : Count(create, x) = IF x \in unchanged THEN 0 ELSE 1
        /\ \A d \in D : Count(delete, d)
                          = IF \E x \in S : Remapped(x, dest_ext) = d THEN 0 ELSE 1
        /\ \A d \in Range(delete) :
              ~ \E x \in Range(create) : Remapped(x, dest_ext) = d

\* C1: operations_to_sync puts every listed source path in exactly one of
\* toCreate and unchanged, every listed destination path in exactly one of
\* toDelete and unchanged, and deletes no path that is the remapped form of a
\* source path it creates: in the conversion pass and in the copy pass.
C1_Partition ==
    /\ pc = "plan_copy" =>
          Partitions(Tracked(fs, SOURCE, args.from_exts),
                     Tracked(fs, DEST, <<args.to_ext>>),
                     args.to_ext, files_to_convert, files_to_delete)
    /\ pc = "report" =>
          Partitions(Tracked(fs, SOURCE, args.copy_exts),
                     Tracked(fs, DEST, args.copy_exts),
                     <<>>, files_to_copy, files_to_delete2)

\* the source files of the tree main started with that correspond to the
\* destination path fp: converted to it or copied to it
Sources(fp) ==
    {rel \in Tracked(hist.fs0, SOURCE, args.from_exts) :
        join(DEST, Remapped(rel, args.to_ext)) = fp}
    \cup {rel \in Tracked(hist.fs0, SOURCE, args.copy_exts) : join(DEST, rel) = fp}

\* C2: every destination file the deletion phase removes is one no source
\* file corresponds to.
C2_RemovedHaveNoSource ==
    \A fp \in hist.removed : Sources(fp) = {}

\* C3: after a full sync (not a simulation) of trees that can be read, whose
\* deletions, copies and conversions all succeeded, the plan of a second run
\* is empty.
C3_SecondPlanEmpty ==
    (/\ pc = "done" /\ hist.joined /\ ~args.dry_run /\ hist.failed = 0
     /\ hist.fs0.unreadable = {}) =>
        /\ operations_to_sync(fs, args.ignore_mtime, SOURCE, DEST,
                              args.from_exts, args.to_ext) = <<(<<>>), (<<>>)>>
        /\ operations_to_sync(fs, args.ignore_mtime, SOURCE, DEST,
                              args.copy_exts, <<>>) = <<(<<>>), (<<>>)>>

\* C4: in simulation mode the run changes no file and no directory and starts
\* no converter command.
C4_DryRunChangesNothing ==
    args.dry_run => (fs = hist.fs0 /\ hist.spawned = 0)

\* C5: when a root is missing or a directory cannot be read, the run ends
\* before it reports a plan and before it deletes, copies or converts.
C5_ListingFails ==
    (\/ SOURCE \notin hist.fs0.dirs
     \/ DEST \notin hist.fs0.dirs
     \/ hist.fs0.unreadable # {}) =>
        /\ ~hist.reported
        /\ fs = hist.fs0
        /\ hist.spawned = 0
        /\ hist.listed => pc = "error"

\* the workers that hold item x: they got it and have not marked it done
Holders(x) ==
    {w \in DOMAIN threads : threads[w].pc # "get" /\ threads[w].rel_fp = x}

\* C6: every job is put once and got at most once, a job that was got is held
\* by exactly one worker until it is marked done, once; and when q.join has
\* returned every job of the list was put, got and marked done.
C6_ExactlyOnce ==
    /\ \A x \in Range(files_to_convert) :
          /\ Count(hist.put, x) <= 1
          /\ Count(hist.got, x) <= Count(hist.put, x)
          /\ Cardinality(Holders(x)) + (IF x \in hist.done THEN 1 ELSE 0)
                = Count(hist.got, x)
    /\ hist.task_done = Cardinality(hist.done)
    /\ unfinished_tasks = Len(hist.put) - hist.task_done
    /\ hist.joined =>
          /\ hist.put = files_to_convert
          /\ hist.got = files_to_convert
          /\ hist.done = Range(files_to_convert)
          /\ hist.task_done = Len(files_to_convert)

\* two jobs went through one worker and q.join returned
C6_Witness ==
    /\ hist.joined
    /\ args.jobs = 1
    /\ hist.task_done = 2
    /\ ~args.dry_run

\* C7: at no moment do two workers run the converter on one destination path.
C7_NoSharedDestination ==
    \A v, w \in DOMAIN threads :
        (v # w /\ threads[v].pc = "run" /\ threads[w].pc = "run") =>
            join(DEST, Remapped(threads[v].rel_fp, args.to_ext))
                # join(DEST, Remapped(threads[w].rel_fp, args.to_ext))

\* C8: under a fair scheduler a job that was got is marked done, whatever the
\* exit status of its command, unless the operator interrupts; no job is got
\* twice; and q.join returns, with every job of the list done.
C8_EveryJobIsDone ==
    /\ \A x \in SrcUniverse :
          (x \in Range(hist.got)) ~> (x \in hist.done \/ pc = "done")
    /\ [](\A x \in SrcUniverse : Count(hist.got, x) <= 1)
    /\ (pc = "start") ~>
          (pc = "done" /\ (hist.joined => hist.done = Range(files_to_convert)))

\* every entry of the delete list was removed
DeletesDone ==
    \A k \in DOMAIN files_to_delete : join(DEST, files_to_delete[k]) \in hist.removed

\* C9: when the run is no simulation, a file is removed only while nothing
\* was copied and no job was taken, a file is copied only after every deletion
\* and while no job was taken, and a job is taken only after every deletion
\* and every copy.
C9_DeleteCopyConvert ==
    [][~args.dry_run =>
        /\ hist.removed' # hist.removed => (hist.copied = 0 /\ hist.got = <<>>)
        /\ hist.copied' # hist.copied => (DeletesDone /\ hist.got = <<>>)
        /\ hist.got' # hist.got => (DeletesDone /\ hist.copied = Len(files_to_copy))]_vars

\* a run that removed, copied and converted
C9_Witness ==
    /\ hist.removed # {}
    /\ hist.copied > 0
    /\ hist.got # <<>>
    /\ ~args.dry_run

\* the command template has the token
HasToken(token) == \E k \in DOMAIN args.CONVERT_CMD : args.CONVERT_CMD[k] = token

\* C10: a template without @source or without @dest ends the run with status
\* 1 before any listing, report, deletion, copy, directory or conversion.
C10_BadTemplateExits ==
    (pc # "validate" /\ ~(HasToken(AT_SOURCE) /\ HasToken(AT_DEST))) =>
        /\ pc = "exit" /\ exit_status = 1
        /\ fs = hist.fs0
        /\ ~hist.listed /\ ~hist.reported
        /\ hist.removed = {} /\ hist.copied = 0 /\ hist.spawned = 0
        /\ threads = <<>>

\* the run ended for a template that has @source and lacks @dest
C10_Witness ==
    /\ pc = "exit" /\ exit_status = 1
    /\ HasToken(AT_SOURCE) /\ ~HasToken(AT_DEST)

\* the plan of the tree as it was before the edit, for one pass
PlanBefore(exts, dest_ext) ==
    operations_to_sync(hist.fs0, args.ignore_mtime, SOURCE, DEST, exts, dest_ext)

\* list b is list a with one x more, wherever it stands
OneMore(a, b, x) ==
    \A y \in Range(a) \cup Range(b) \cup {x} :
        Count(b, y) = Count(a, y) + (IF y = x THEN 1 ELSE 0)

\* the file added is new to the pass: its extension is one of exts and the
\* path it corresponds to is no file of the destination
AddedNew(exts, dest_ext) ==
    /\ Len(hist.edit) = 2 /\ hist.edit[1] = "add"
    /\ ext(hist.edit[2]) \in Range(exts)
    /\ join(DEST, Remapped(hist.edit[2], dest_ext)) \notin DOMAIN fs.files

\* C11: after one new source file with a tracked extension is added, the
\* plan's toCreate is the former toCreate plus that file and its toDelete is
\* the former toDelete: in the conversion pass and in the copy pass.
C11_AddOneSource ==
    /\ (pc = "plan_copy" /\ AddedNew(args.from_exts, args.to_ext)) =>
          /\ OneMore(PlanBefore(args.from_exts, args.to_ext)[1], files_to_convert,
                     hist.edit[2])
          /\ files_to_delete = PlanBefore(args.from_exts, args.to_ext)[2]
    /\ (pc = "report" /\ AddedNew(args.copy_exts, <<>>)) =>
          /\ OneMore(PlanBefore(args.copy_exts, <<>>)[1], files_to_copy, hist.edit[2])
          /\ files_to_delete2 = PlanBefore(args.copy_exts, <<>>)[2]

\* the file removed had a counterpart in the pass, and was alone to have it:
\* its extension is one of exts, the path it corresponds to is a file of the
\* destination, and no other source file of the pass corresponds to that path
RemovedMatched(exts, dest_ext) ==
    /\ Len(hist.edit) = 2 /\ hist.edit[1] = "remove"
    /\ ext(hist.edit[2]) \in Range(exts)
    /\ join(DEST, Remapped(hist.edit[2], dest_ext)) \in DOMAIN fs.files
    /\ \A y \in Tracked(fs, SOURCE, exts) :
          Remapped(y, dest_ext) # Remapped(hist.edit[2], dest_ext)

\* lists a and b have the same entries but for x
SameBut(a, b, x) ==
    \A y \in (Range(a) \cup Range(b)) \ {x} : Count(b, y) = Count(a, y)

\* C12: after one source file whose destination counterpart exists is
\* removed, the plan's toDelete is the former toDelete plus that counterpart,
\* and every other entry of toCreate is as before: in the conversion pass and
\* in the copy pass.
C12_RemoveOneSource ==
    /\ (pc = "plan_copy" /\ RemovedMatched(args.from_exts, args.to_ext)) =>
          /\ OneMore(PlanBefore(args.from_exts, args.to_ext)[2], files_to_delete,
                     Remapped(hist.edit[2], args.to_ext))
          /\ SameBut(PlanBefore(args.from_exts, args.to_ext)[1], files_to_convert,
                     hist.edit[2])
    /\ (pc = "report" /\ RemovedMatched(args.copy_exts, <<>>)) =>
          /\ OneMore(PlanBefore(args.copy_exts, <<>>)[2], files_to_delete2, hist.edit[2])
          /\ SameBut(PlanBefore(args.copy_exts, <<>>)[1], files_to_copy, hist.edit[2])

\* the matched pairs of a pass: the source paths of S whose remapped path is
\* in D and to which no other path of S is remapped
Matched(S, D, dest_ext) ==
    {x \in S : /\ Remapped(x, dest_ext) \in D
               /\ \A y \in S \ {x} : Remapped(y, dest_ext) # Remapped(x, dest_ext)}

\* a matched source path is created exactly when the mtime check is on and
\* the source is newer, and its destination path is not deleted
StaleRule(S, D, dest_ext, create, delete) ==
    \A x \in Matched(S, D, dest_ext) :
        /\ x \in Range(create) <=>
              /\ ~args.ignore_mtime
              /\ fs.files[join(SOURCE, x)] > fs.files[join(DEST, Remapped(x, dest_ext))]
        /\ Remapped(x, dest_ext) \notin Range(delete)

\* C13: a source path whose remapped path is a destination path is in
\* toCreate exactly when the mtime check is enabled and the source mtime is
\* strictly greater than the destination's (never with ignore_mtime), and the
\* destination path is never in toDelete: in the conversion pass and in the
\* copy pass.
C13_MatchedPairs ==
    /\ pc = "plan_copy" =>
          StaleRule(Tracked(fs, SOURCE, args.from_exts),
                    Tracked(fs, DEST, <<args.to_ext>>),
                    args.to_ext, files_to_convert, files_to_delete)
    /\ pc = "report" =>
          StaleRule(Tracked(fs, SOURCE, args.copy_exts),
                    Tracked(fs, DEST, args.copy_exts),
                    <<>>, files_to_copy, files_to_delete2)

\* the workers that are in a print call
Printing == {w \in DOMAIN threads : threads[w].pc \in {"echo_print", "output_print"}}

\* C14: while the pool runs at most one thread prints: a worker in a print
\* call holds the lock, main holds it while it prints "Interrupted", and the
\* lock is held by nobody else, so that it is free again after each print.
C14_OnePrinter ==
    /\ Cardinality(Printing) + (IF pc = "except_print" THEN 1 ELSE 0) <= 1
    /\ \A w \in DOMAIN threads : w \in Printing <=> stdout_lock = WORKER(w)
    /\ pc = "except_print" <=> stdout_lock = MAIN
    /\ (Printing = {} /\ pc # "except_print") <=> stdout_lock = FREE

\* main, interrupted, waits for the lock while a worker prints and another
\* worker waits for it too
C14_Witness ==
    /\ pc = "except"
    /\ \E v, w \in DOMAIN threads :
          /\ threads[w].pc = "output_print"
          /\ threads[v].pc \in {"echo", "output"}

Abs(n) == IF n < 0 THEN 0 - n ELSE n

Max(m, n) == IF m >= n THEN m ELSE n

\* the threads were started (lines 184-191)
Started == pc \in {"put", "join"} \/ hist.joined

\* C15: the number of workers started is the value of -j when it is positive,
\* and max(1, os.cpu_count() - |jobs|) when it is zero or negative; it is at
\* least 1 in every case.
C15_WorkerCount ==
    Started =>
        /\ Len(threads) =
              IF hist.jobs > 0 THEN hist.jobs
              ELSE Max(1, hist.cpu_count - Abs(hist.jobs))
        /\ Len(threads) >= 1

\* a run came to its end with the one thread started for a negative -j
\* whose size exceeds the processor count
C15_Witness ==
    /\ Started
    /\ hist.jobs = 0 - MaxCpus /\ hist.cpu_count = MaxCpus - 1
    /\ Len(threads) = 1
    /\ hist.joined

\* C16: from the start of the threads until q.join returns there are exactly
\* args.jobs workers and none has ended, whatever became of its jobs.
C16_WorkersSurvive ==
    (pc \in {"put", "join"} \/ hist.joined) =>
        /\ Len(threads) = args.jobs
        /\ \A w \in DOMAIN threads : threads[w].pc # "dead"

\* the file a step removes
RemovedNow == CHOOSE fp \in hist.removed' \ hist.removed : TRUE

\* after the removal of fp nothing is left in directory d but directories on
\* the way down to where fp was
OnlyTheWay(d, fp) ==
    /\ \A p \in DOMAIN fs.files \ {fp} : ~Below(p, d)
    /\ \A e \in fs.dirs : Below(e, d) => e \in Ancestors(fp)

\* C17: a step that removes a destination file removes that file only; it
\* removes the file's parent directory exactly when the removal left it
\* empty, then each directory above in turn exactly while it is empty; no
\* directory that still holds an entry is removed.
C17_EmptyParentsCollapse ==
    [][hist.removed' # hist.removed =>
        /\ DOMAIN fs'.files = DOMAIN fs.files \ {RemovedNow}
        /\ fs'.dirs \subseteq fs.dirs
        /\ \A d \in fs.dirs :
              d \notin fs'.dirs <=> (d \in Ancestors(RemovedNow) /\ OnlyTheWay(d, RemovedNow))
        /\ \A d \in fs.dirs \ fs'.dirs :
              /\ \A p \in DOMAIN fs'.files : ~Below(p, d)
              /\ \A e \in fs'.dirs : ~Below(e, d)]_vars

\* a deletion has removed the directory d of the destination and left the
\* destination root, which holds another file
C17_Witness ==
    /\ hist.removed # {}
    /\ join(DEST, <<"d">>) \in hist.fs0.dirs
    /\ join(DEST, <<"d">>) \notin fs.dirs
    /\ DEST \in fs.dirs
    /\ \E p \in DOMAIN fs.files : split(p)[1] = DEST

\* main is in its except clause
Interrupted == pc \in {"except", "except_print"}

\* C18: an interrupt while main puts jobs or waits in q.join is caught: the
\* run never ends on an error; from then on main puts no job and waits for
\* none, it only reports and returns; and under a fair scheduler it gets the
\* lock, prints and returns.
C18_InterruptEndsRun ==
    /\ [](pc # "error" /\ exit_status = -1)
    /\ [][Interrupted =>
            /\ hist.put' = hist.put
            /\ hist.joined' = hist.joined
            /\ pc' \in {"except", "except_print", "done"}]_vars
    /\ (pc = "except") ~> (pc = "except_print")
    /\ (pc = "except_print") ~> (pc = "done" /\ stdout_lock = FREE)

\* the run has ended on an interrupt with jobs of the list never put
C18_Witness ==
    /\ pc = "done"
    /\ ~hist.joined
    /\ hist.put # <<>>
    /\ Len(hist.put) < Len(files_to_convert)

\* nothing was deleted, copied, created, started or converted
NothingDone ==
    /\ fs = hist.fs0
    /\ hist.removed = {} /\ hist.copied = 0
    /\ threads = <<>> /\ hist.put = <<>> /\ hist.spawned = 0

\* C19 as stated: once the operator has answered anything but "y", the run
\* has ended and nothing was deleted, copied, created, started or converted.
C19_NotYEndsRun ==
    hist.answer \notin {"unasked", "y"} => (pc = "done" /\ NothingDone)

\* C19 as amended: after an answer of "n", of "N" or of nothing the run has
\* ended with nothing done; after any answer but "y" and "Y" nothing is done,
\* and after one that is none of these the operator is asked again; and a run
\* that asks does nothing before it was answered "y" or "Y".
C19_DeclineEndsRun ==
    /\ hist.answer \in {"n", "N", ""} => (pc = "done" /\ NothingDone)
    /\ hist.answer \notin {"unasked", "y", "Y"} => NothingDone
    /\ hist.answer \notin {"unasked", "y", "Y", "n", "N", ""} => pc = "confirm"
    /\ (hist.reported /\ pc # "mode" /\ ~args.dry_run /\ ~args.noconfirm /\ ~NothingDone)
          => hist.answer \in {"y", "Y"}

\* the operator answered nothing and the run ended, with files it had
\* planned to delete and to convert
C19_Witness ==
    /\ hist.answer = ""
    /\ pc = "done"
    /\ files_to_delete # <<>> /\ files_to_convert # <<>>

\* C20: the deletion phase never removes the destination root: a root that
\* was there when the run began is there ever after.
C20_RootIsKept ==
    DEST \in hist.fs0.dirs => DEST \in fs.dirs

=============================================================================
